---- MODULE Spec2Model ----
(***************************************************************************)
(* Index-free Grover search over a QRAM-loaded database                    *)
(* (GroverSearchNumber, DNAOneNucleotideGroverSearch) and the classical    *)
(* KMP matcher.                                                            *)
(*                                                                         *)
(* Amplitudes are exact: the state vector holds integers and hc counts the *)
(* Hadamard gates applied so far, the amplitude of basis state i being     *)
(* state[i] / sqrt(2)^hc.  Wire 0 is the most significant bit of a basis   *)
(* index, so index = address * 2^data_n + data.                            *)
(***************************************************************************)
EXTENDS Integers, Sequences, FiniteSets, TLC

VARIABLES cls, my_list, target_value, addr_arg, data_arg,
          addr_n, data_n, total_qubits, dev,
          pc, err, tape, k, state, hc, probs,
          unit, e_addr, e_val, b0,
          pattern, text, lps, length, li, si, sj, match

vars == <<cls, my_list, target_value, addr_arg, data_arg,
          addr_n, data_n, total_qubits, dev,
          pc, err, tape, k, state, hc, probs,
          unit, e_addr, e_val, b0,
          pattern, text, lps, length, li, si, sj, match>>

groverVars == <<cls, my_list, target_value, addr_arg, data_arg,
                addr_n, data_n, total_qubits, dev,
                err, tape, k, state, hc, probs,
                unit, e_addr, e_val, b0>>

kmpVars == <<pattern, text, lps, length, li, si, sj, match>>

(* ---- bounds ---- *)
MaxN == 3          \* longest database, default widths
MaxVal == 2        \* largest stored value / target, default widths
DistMaxN == 4      \* longest database of distinct values
DistMaxVal == 3    \* largest stored value / target, distinct values
OvMaxN == 3        \* longest database when the caller overrides widths
OvMaxVal == 3      \* largest stored value / target with overridden widths
OvMaxWidth == 2    \* largest caller-supplied register width
UnitMaxWidth == 2  \* widest register of a single encode or oracle block
UnitMaxVal == 3    \* largest target of a single oracle block
LUMaxN == 2        \* longest database for the load/unload passes
LUMaxVal == 2      \* largest stored value for the load/unload passes
LUMaxWidth == 1    \* largest caller-supplied width for the load/unload passes
MaxPat == 3        \* longest KMP pattern
MaxText == 4       \* longest KMP text
Alphabet == {"A", "C"}

None == 0 - 1      \* Python None for an optional width, an unset field

Classes == {"GroverSearchNumber", "DNAOneNucleotideGroverSearch"}

SeqsUpTo(S, n) == UNION {[1..m -> S] : m \in 0..n}

(* ---- arithmetic and string formatting ---- *)

\* math.ceil(math.log2(n)) for n >= 1
RECURSIVE CeilLog2From(_, _)
CeilLog2From(n, e) == IF 2^e >= n THEN e ELSE CeilLog2From(n, e + 1)
CeilLog2(n) == CeilLog2From(n, 0)

\* max(my_list) if my_list else 0
RECURSIVE MaxOf(_)
MaxOf(s) == IF Len(s) = 0 THEN 0
            ELSE LET m == MaxOf(Tail(s)) IN IF Head(s) > m THEN Head(s) ELSE m

\* format(x, "b"): binary digits, most significant first, at least one digit
RECURSIVE Bin(_)
Bin(x) == IF x < 2 THEN <<x>> ELSE Bin(x \div 2) \o <<x % 2>>

\* f"{x:0{w}b}": zero-padded on the left to width w, never truncated
FormatBin(x, w) ==
    LET b == Bin(x)
    IN IF Len(b) >= w THEN b ELSE [i \in 1..(w - Len(b)) |-> 0] \o b

\* range(n) as a sequence
Range(n) == [i \in 1..n |-> i - 1]

(* ---- register planner: __init__ ---- *)

\* self.addr_n; "domain" stands for math.log2(0) raising
PlanAddr(N, a_arg) == IF a_arg # None THEN a_arg ELSE CeilLog2(N)

PlanData(list, d_arg) == IF d_arg # None THEN d_arg ELSE CeilLog2(MaxOf(list) + 1)

\* outcome of the constructor up to the capacity check
Plan(list, a_arg, d_arg) ==
    IF a_arg = None /\ Len(list) = 0
    THEN [ok |-> FALSE, err |-> "domain", addr_n |-> None, data_n |-> None]
    ELSE LET an == PlanAddr(Len(list), a_arg)
             dn == PlanData(list, d_arg)
         IN IF 2^an < Len(list)
            THEN [ok |-> FALSE, err |-> "capacity", addr_n |-> an, data_n |-> dn]
            ELSE [ok |-> TRUE, err |-> "none", addr_n |-> an, data_n |-> dn]

(* ---- gates ---- *)

Gate(kind, wires, tag) == [kind |-> kind, wires |-> wires, blk |-> tag]

\* qml.MultiControlledX(wires=...) refuses fewer than two wires
MCXGate(wires, tag) ==
    IF Len(wires) < 2 THEN Gate("raise", wires, tag)
    ELSE Gate("MultiControlledX", wires, tag)

\* for i, bit in enumerate(bits): if bit == "0": qml.PauliX(base + i)
FlipZeros(bits, base, tag) ==
    LET idx == SelectSeq(Range(Len(bits)), LAMBDA i : bits[i + 1] = 0)
    IN [j \in 1..Len(idx) |-> Gate("PauliX", <<base + idx[j]>>, tag)]

(* ---- encoding unit ---- *)

\* _encode_value with the value bits taken least significant first
EncodeValueLsbFirst(an, dn, addr_state, value, tag) ==
    LET addr_bits == FormatBin(addr_state, an)
        value_bits == FormatBin(value, dn)
        ones == SelectSeq(Range(Len(value_bits)),
                          LAMBDA i : value_bits[Len(value_bits) - i] = 1)
        flips == FlipZeros(addr_bits, 0, tag)
    IN flips
       \o [j \in 1..Len(ones) |-> MCXGate(Range(an) \o <<an + ones[j]>>, tag)]
       \o flips

\* _encode_value(addr_state, value)
EncodeValue(an, dn, addr_state, value, tag) ==
    LET addr_bits == FormatBin(addr_state, an)
        value_bits == FormatBin(value, dn)
        ones == SelectSeq(Range(Len(value_bits)), LAMBDA i : value_bits[i + 1] = 1)
        flips == FlipZeros(addr_bits, 0, tag)
    IN flips
       \o [j \in 1..Len(ones) |-> MCXGate(Range(an) \o <<an + ones[j]>>, tag)]
       \o flips

\* _qram_load over the first n entries, address ascending
RECURSIVE QramLoad(_, _, _, _)
QramLoad(list, an, dn, n) ==
    IF n = 0 THEN <<>>
    ELSE QramLoad(list, an, dn, n - 1) \o EncodeValue(an, dn, n - 1, list[n], "load")

\* _qram_unload that stops before address 0
RECURSIVE QramUnloadSkipFirst(_, _, _, _)
QramUnloadSkipFirst(list, an, dn, n) ==
    IF n <= 1 THEN <<>>
    ELSE EncodeValue(an, dn, n - 1, list[n], "unload")
         \o QramUnloadSkipFirst(list, an, dn, n - 1)

\* _qram_unload over the first n entries, address descending
RECURSIVE QramUnload(_, _, _, _)
QramUnload(list, an, dn, n) ==
    IF n = 0 THEN <<>>
    ELSE EncodeValue(an, dn, n - 1, list[n], "unload") \o QramUnload(list, an, dn, n - 1)

(* ---- oracle ---- *)

\* H - MCX - H on the last wire of a register, or PauliZ on its only wire
MultiControlledZ(wires, tag) ==
    IF Len(wires) = 1 THEN <<Gate("PauliZ", <<wires[1]>>, tag)>>
    ELSE IF Len(wires) = 0 THEN <<Gate("raise", <<>>, tag)>>
    ELSE <<Gate("Hadamard", <<wires[Len(wires)]>>, tag),
           MCXGate(wires, tag),
           Gate("Hadamard", <<wires[Len(wires)]>>, tag)>>

\* _oracle without the trailing "undo flips" loop
OracleNoUndo(c, an, dn, target) ==
    LET target_bits == FormatBin(target, dn)
        flips == FlipZeros(target_bits, an, "oracle")
        data_wires == [i \in 1..dn |-> an + i - 1]
    IN flips \o MultiControlledZ(data_wires, "oracle")

\* _oracle that never flips the data qubits: it marks the all-ones value
OracleAllOnes(c, an, dn, target) ==
    LET data_wires == [i \in 1..dn |-> an + i - 1]
    IN IF dn = 0 /\ c = "GroverSearchNumber" THEN <<>>
       ELSE MultiControlledZ(data_wires, "oracle")

\* _oracle(); GroverSearchNumber returns early when data_n == 0, the DNA
\* class indexes data_wires[-1] of an empty list there
Oracle(c, an, dn, target) ==
    LET target_bits == FormatBin(target, dn)
        flips == FlipZeros(target_bits, an, "oracle")
        data_wires == [i \in 1..dn |-> an + i - 1]
    IN IF dn = 0 /\ c = "GroverSearchNumber" THEN flips
       ELSE flips \o MultiControlledZ(data_wires, "oracle") \o flips

(* ---- diffuser ---- *)

\* for i in range(addr_n): first(i); second(i)
PairLayer(an, first, second) ==
    [j \in 1..(2 * an) |->
        Gate(IF j % 2 = 1 THEN first ELSE second, <<(j - 1) \div 2>>, "diffuser")]

\* _diffuser without the multi-controlled Z in the middle
DiffuserNoPhase(c, an) ==
    PairLayer(an, "Hadamard", "PauliX") \o PairLayer(an, "PauliX", "Hadamard")

\* _diffuser without the PauliX layers around the multi-controlled Z
DiffuserNoFlips(c, an) ==
    [j \in 1..an |-> Gate("Hadamard", <<j - 1>>, "diffuser")]
    \o MultiControlledZ(Range(an), "diffuser")
    \o [j \in 1..an |-> Gate("Hadamard", <<j - 1>>, "diffuser")]

\* _diffuser(); GroverSearchNumber returns early when addr_n == 0, the DNA
\* class builds Hadamard(-1) and MultiControlledX(wires=[-1]) there
Diffuser(c, an) ==
    LET pre == PairLayer(an, "Hadamard", "PauliX")
        post == PairLayer(an, "PauliX", "Hadamard")
    IN IF an = 0
       THEN IF c = "GroverSearchNumber" THEN pre
            ELSE pre \o <<Gate("Hadamard", <<0 - 1>>, "diffuser"),
                          MCXGate(<<0 - 1>>, "diffuser"),
                          Gate("Hadamard", <<0 - 1>>, "diffuser")>> \o post
       ELSE pre \o MultiControlledZ(Range(an), "diffuser") \o post

(* ---- circuit composer ---- *)

HadamardLayer(an) == [j \in 1..an |-> Gate("Hadamard", <<j - 1>>, "init")]

\* _grover_probs_circuit with the oracle called after the unload pass
GroverProbsCircuitLateOracle(c, list, target, an, dn) ==
    HadamardLayer(an)
    \o QramLoad(list, an, dn, Len(list))
    \o QramUnload(list, an, dn, Len(list))
    \o Oracle(c, an, dn, target)
    \o Diffuser(c, an)

\* _grover_probs_circuit(): the operations queued before qml.probs
GroverProbsCircuit(c, list, target, an, dn) ==
    HadamardLayer(an)
    \o QramLoad(list, an, dn, Len(list))
    \o Oracle(c, an, dn, target)
    \o QramUnload(list, an, dn, Len(list))
    \o Diffuser(c, an)

\* an operation constructor raised while the circuit was being queued
Raises(gs) == \E j \in 1..Len(gs) : gs[j].kind = "raise"

\* every operation acts on wires of the device
WiresOnDevice(gs, Q) ==
    \A j \in 1..Len(gs) : \A w \in 1..Len(gs[j].wires) :
        gs[j].wires[w] >= 0 /\ gs[j].wires[w] < Q

(* ---- state simulator ---- *)

Dim(Q) == 2^Q

\* value of wire w in basis index i (wire 0 most significant)
BitOf(i, w, Q) == (i \div 2^(Q - 1 - w)) % 2

FlipWire(i, w, Q) ==
    IF BitOf(i, w, Q) = 0 THEN i + 2^(Q - 1 - w) ELSE i - 2^(Q - 1 - w)

BasisState(b, Q) == [i \in 0..(Dim(Q) - 1) |-> IF i = b THEN 1 ELSE 0]

PauliX(psi, w, Q) == [i \in 0..(Dim(Q) - 1) |-> psi[FlipWire(i, w, Q)]]

PauliZ(psi, w, Q) ==
    [i \in 0..(Dim(Q) - 1) |-> IF BitOf(i, w, Q) = 1 THEN 0 - psi[i] ELSE psi[i]]

\* Hadamard with the sign of the |1> row dropped
HadamardNoSign(psi, w, Q) ==
    [i \in 0..(Dim(Q) - 1) |-> psi[i] + psi[FlipWire(i, w, Q)]]

\* sqrt(2) * H: the factor 1/sqrt(2) is counted in hc
Hadamard(psi, w, Q) ==
    [i \in 0..(Dim(Q) - 1) |->
        IF BitOf(i, w, Q) = 0 THEN psi[i] + psi[FlipWire(i, w, Q)]
        ELSE psi[FlipWire(i, w, Q)] - psi[i]]

\* the last wire is the target, the others are controls
MultiControlledX(psi, wires, Q) ==
    [i \in 0..(Dim(Q) - 1) |->
        IF \A c \in 1..(Len(wires) - 1) : BitOf(i, wires[c], Q) = 1
        THEN psi[FlipWire(i, wires[Len(wires)], Q)] ELSE psi[i]]

RECURSIVE SumSqFrom(_, _, _)
SumSqFrom(psi, lo, hi) ==
    IF lo > hi THEN 0 ELSE psi[lo] * psi[lo] + SumSqFrom(psi, lo + 1, hi)

\* qml.probs(wires=range(addr_n)): marginal over the data register,
\* as numerators over 2^hc
AddrProbs(psi, an, dn) ==
    [a \in 0..(2^an - 1) |-> SumSqFrom(psi, a * 2^dn, a * 2^dn + 2^dn - 1)]

RECURSIVE SumFn(_, _, _)
SumFn(f, lo, hi) == IF lo > hi THEN 0 ELSE f[lo] + SumFn(f, lo + 1, hi)

(* ---- the search object: construction and run ---- *)

KmpIdle ==
    /\ pattern = <<>> /\ text = <<>> /\ lps = <<>> /\ length = 0
    /\ li = 0 /\ si = 0 /\ sj = 0 /\ match = <<>>

Unbuilt ==
    /\ addr_n = None /\ data_n = None /\ total_qubits = None /\ dev = None
    /\ err = "none" /\ tape = <<>> /\ k = 0 /\ state = <<>> /\ hc = 0
    /\ probs = <<>>

\* a caller using the default register widths
Init ==
    /\ cls \in Classes
    /\ my_list \in SeqsUpTo(0..MaxVal, MaxN)
    /\ target_value \in 0..MaxVal
    /\ addr_arg = None /\ data_arg = None
    /\ pc = "new" /\ unit = "circuit" /\ e_addr = 0 /\ e_val = 0 /\ b0 = 0
    /\ Unbuilt /\ KmpIdle

\* a caller whose database holds pairwise different values
InitDistinct ==
    /\ cls \in Classes
    /\ my_list \in {l \in SeqsUpTo(0..DistMaxVal, DistMaxN) :
                       \A i, j \in 1..Len(l) : i # j => l[i] # l[j]}
    /\ target_value \in 0..DistMaxVal
    /\ addr_arg = None /\ data_arg = None
    /\ pc = "new" /\ unit = "circuit" /\ e_addr = 0 /\ e_val = 0 /\ b0 = 0
    /\ Unbuilt /\ KmpIdle

\* a caller supplying addr_n and/or data_n
InitOverride ==
    /\ cls \in Classes
    /\ my_list \in SeqsUpTo(0..OvMaxVal, OvMaxN)
    /\ target_value \in 0..OvMaxVal
    /\ addr_arg \in {None} \cup 0..OvMaxWidth
    /\ data_arg \in {None} \cup 0..OvMaxWidth
    /\ pc = "new" /\ unit = "circuit" /\ e_addr = 0 /\ e_val = 0 /\ b0 = 0
    /\ Unbuilt /\ KmpIdle

\* __init__: widths, capacity check, device
Construct ==
    /\ pc = "new"
    /\ LET p == Plan(my_list, addr_arg, data_arg)
       IN /\ addr_n' = p.addr_n
          /\ data_n' = p.data_n
          /\ IF p.ok
             THEN /\ total_qubits' = p.addr_n + p.data_n
                  /\ dev' = p.addr_n + p.data_n
                  /\ pc' = "constructed"
                  /\ err' = err
             ELSE /\ pc' = "failed"
                  /\ err' = p.err
                  /\ UNCHANGED <<total_qubits, dev>>
    /\ UNCHANGED <<cls, my_list, target_value, addr_arg, data_arg, tape, k,
                   state, hc, probs, unit, e_addr, e_val, b0>>
    /\ UNCHANGED kmpVars

\* run(): GroverSearchNumber returns {} for an empty database; otherwise the
\* QNode queues the operations of _grover_probs_circuit
Run ==
    /\ pc = "constructed"
    /\ IF cls = "GroverSearchNumber" /\ Len(my_list) = 0
       THEN pc' = "done" /\ UNCHANGED <<tape, err>>
       ELSE LET gs == GroverProbsCircuit(cls, my_list, target_value, addr_n, data_n)
            IN IF Raises(gs)
               THEN pc' = "failed" /\ err' = "build" /\ tape' = tape
               ELSE pc' = "queued" /\ tape' = gs /\ err' = err
    /\ UNCHANGED <<cls, my_list, target_value, addr_arg, data_arg, addr_n,
                   data_n, total_qubits, dev, k, state, hc, probs, unit,
                   e_addr, e_val, b0>>
    /\ UNCHANGED kmpVars

\* the device checks the wires of the queued operations, then starts from
\* the all-zero basis state.  A device of zero wires has no valid wire.
Execute ==
    /\ pc = "queued"
    /\ IF WiresOnDevice(tape, dev)
       THEN /\ state' = BasisState(0, total_qubits)
            /\ k' = 1
            /\ pc' = "sim"
            /\ err' = err
       ELSE /\ pc' = "failed"
            /\ err' = "wire"
            /\ UNCHANGED <<state, k>>
    /\ UNCHANGED <<cls, my_list, target_value, addr_arg, data_arg, addr_n,
                   data_n, total_qubits, dev, tape, hc, probs, unit,
                   e_addr, e_val, b0>>
    /\ UNCHANGED kmpVars

Step(kind) ==
    /\ pc = "sim"
    /\ k <= Len(tape)
    /\ tape[k].kind = kind
    /\ k' = k + 1
    /\ UNCHANGED <<cls, my_list, target_value, addr_arg, data_arg, addr_n,
                   data_n, total_qubits, dev, pc, err, tape, probs, unit,
                   e_addr, e_val, b0>>
    /\ UNCHANGED kmpVars

ApplyPauliX ==
    /\ Step("PauliX")
    /\ state' = PauliX(state, tape[k].wires[1], total_qubits)
    /\ hc' = hc

ApplyPauliZ ==
    /\ Step("PauliZ")
    /\ state' = PauliZ(state, tape[k].wires[1], total_qubits)
    /\ hc' = hc

ApplyHadamard ==
    /\ Step("Hadamard")
    /\ state' = Hadamard(state, tape[k].wires[1], total_qubits)
    /\ hc' = hc + 1

ApplyMultiControlledX ==
    /\ Step("MultiControlledX")
    /\ state' = MultiControlledX(state, tape[k].wires, total_qubits)
    /\ hc' = hc

\* return qml.probs(wires=range(self.addr_n))
Measure ==
    /\ pc = "sim"
    /\ unit = "circuit"
    /\ k > Len(tape)
    /\ probs' = AddrProbs(state, addr_n, data_n)
    /\ pc' = "done"
    /\ UNCHANGED <<cls, my_list, target_value, addr_arg, data_arg, addr_n,
                   data_n, total_qubits, dev, err, tape, k, state, hc, unit,
                   e_addr, e_val, b0>>
    /\ UNCHANGED kmpVars

Next ==
    \/ Construct
    \/ Run
    \/ Execute
    \/ ApplyPauliX
    \/ ApplyPauliZ
    \/ ApplyHadamard
    \/ ApplyMultiControlledX
    \/ Measure

Spec == Init /\ [][Next]_vars

SpecDistinct == InitDistinct /\ [][Next]_vars

SpecOverride == InitOverride /\ [][Next]_vars

(* ---- properties of the full circuit ---- *)

Distinct(list) == \A i, j \in 1..Len(list) : i # j => list[i] # list[j]

\* addresses of the database entries equal to the target
Matches == {a \in 0..(Len(my_list) - 1) : my_list[a + 1] = target_value}

\* what the load pass leaves in the data register at address a
Loaded(a) == IF a < Len(my_list) THEN my_list[a + 1] ELSE 0

Addresses == 0..(2^addr_n - 1)

Marked == {a \in Addresses : Loaded(a) = target_value}

UniqueMatch == Distinct(my_list) /\ Cardinality(Matches) = 1

Finished == pc = "done" /\ unit = "circuit" /\ probs # <<>>

\* C1 as stated: with distinct values and exactly one entry equal to the
\* target, the matching address is strictly more probable than every other
\* address, padding addresses included.
C1_StrictlyHighest ==
    (Finished /\ UniqueMatch) =>
        \A m \in Matches : \A a \in Addresses \ {m} : probs[m] > probs[a]

\* C1 amended: for N >= 2 distinct values with exactly one entry equal to the
\* target the run completes, the matching address is at least as probable as
\* every other address, and strictly more probable than every address whose
\* loaded value differs from the target when fewer than half of the
\* 2^addr_n addresses load the target value.
C1_HighestAmongUnmarked ==
    /\ (Len(my_list) >= 2 /\ UniqueMatch) => pc # "failed"
    /\ (Finished /\ Len(my_list) >= 2 /\ UniqueMatch) =>
          \A m \in Matches : \A a \in Addresses \ {m} :
              /\ probs[m] >= probs[a]
              /\ (2 * Cardinality(Marked) < 2^addr_n /\ a \notin Marked)
                    => probs[m] > probs[a]

C1_Witness ==
    /\ Finished /\ UniqueMatch /\ Len(my_list) = 3 /\ target_value # 0
    /\ \A m \in Matches : \A a \in Addresses \ {m} : probs[m] > probs[a]

C4_FourEntries ==
    /\ (Len(my_list) = 4 /\ UniqueMatch /\ pc # "new") =>
          /\ addr_n = 2
          /\ pc # "failed"
          /\ (my_list = <<1, 2, 3, 0>> /\ target_value = 3) =>
                data_n = 2 /\ Matches = {2}
    /\ (Finished /\ Len(my_list) = 4 /\ UniqueMatch) =>
          \A m \in Matches : \A a, b \in Addresses \ {m} :
              probs[m] > probs[a] /\ probs[a] = probs[b]

C4_Witness ==
    /\ Finished /\ my_list = <<1, 2, 3, 0>> /\ target_value = 3
    /\ addr_n = 2 /\ data_n = 2
    /\ probs[2] > probs[0] /\ probs[0] = probs[1] /\ probs[1] = probs[3]

(* ---- single gate blocks applied to one basis state ---- *)

\* the operations one unit queues
UnitTape(u, c, list, target, an, dn, a, v) ==
    CASE u = "encode" -> EncodeValue(an, dn, a, v, "load")
      [] u = "loadunload" -> QramLoad(list, an, dn, Len(list))
                             \o QramUnload(list, an, dn, Len(list))
      [] u = "oracle" -> Oracle(c, an, dn, target)
      [] u = "diffuser" -> Diffuser(c, an)

\* the block is queued and the device starts in basis state b0, or the
\* block cannot be queued or leaves the device
UnitStart ==
    /\ dev = total_qubits
    /\ hc = 0 /\ probs = <<>>
    /\ LET gs == UnitTape(unit, cls, my_list, target_value, addr_n, data_n,
                          e_addr, e_val)
       IN IF Raises(gs)
          THEN pc = "failed" /\ err = "build" /\ tape = <<>> /\ k = 0
               /\ b0 = 0 /\ state = <<>>
          ELSE IF ~WiresOnDevice(gs, total_qubits)
          THEN pc = "failed" /\ err = "wire" /\ tape = gs /\ k = 0
               /\ b0 = 0 /\ state = <<>>
          ELSE pc = "sim" /\ err = "none" /\ tape = gs /\ k = 1
               /\ b0 \in 0..(Dim(total_qubits) - 1)
               /\ state = BasisState(b0, total_qubits)

InitEncode ==
    /\ unit = "encode"
    /\ my_list = <<>> /\ target_value = 0
    /\ addr_arg \in 0..UnitMaxWidth /\ data_arg \in 0..UnitMaxWidth
    /\ addr_n = addr_arg /\ data_n = data_arg
    /\ e_addr \in 0..(2^addr_n - 1)
    /\ e_val \in 0..(2^data_n - 1)

InitLoadUnload ==
    /\ unit = "loadunload"
    /\ my_list \in SeqsUpTo(0..LUMaxVal, LUMaxN)
    /\ target_value = 0
    /\ addr_arg \in {None} \cup 0..LUMaxWidth
    /\ data_arg \in {None} \cup 0..LUMaxWidth
    /\ Plan(my_list, addr_arg, data_arg).ok
    /\ addr_n = Plan(my_list, addr_arg, data_arg).addr_n
    /\ data_n = Plan(my_list, addr_arg, data_arg).data_n
    /\ e_addr = 0 /\ e_val = 0

InitOracle ==
    /\ unit = "oracle"
    /\ my_list = <<>>
    /\ target_value \in 0..UnitMaxVal
    /\ addr_arg \in 0..UnitMaxWidth /\ data_arg \in 0..UnitMaxWidth
    /\ addr_n = addr_arg /\ data_n = data_arg
    /\ e_addr = 0 /\ e_val = 0

InitDiffuser ==
    /\ unit = "diffuser"
    /\ my_list = <<>> /\ target_value = 0
    /\ addr_arg \in 0..UnitMaxWidth /\ data_arg \in 0..UnitMaxWidth
    /\ addr_n = addr_arg /\ data_n = data_arg
    /\ e_addr = 0 /\ e_val = 0

InitUnit ==
    /\ cls \in Classes
    /\ (InitEncode \/ InitLoadUnload \/ InitOracle \/ InitDiffuser)
    /\ total_qubits = addr_n + data_n
    /\ UnitStart
    /\ KmpIdle

\* the last operation of the block has been applied
UnitDone ==
    /\ pc = "sim"
    /\ unit # "circuit"
    /\ k > Len(tape)
    /\ pc' = "done"
    /\ UNCHANGED groverVars
    /\ UNCHANGED kmpVars

NextUnit ==
    \/ ApplyPauliX
    \/ ApplyPauliZ
    \/ ApplyHadamard
    \/ ApplyMultiControlledX
    \/ UnitDone

SpecUnit == InitUnit /\ [][NextUnit]_vars

\* bitwise exclusive or
RECURSIVE BitXor(_, _)
BitXor(x, y) ==
    IF x = 0 /\ y = 0 THEN 0
    ELSE 2 * BitXor(x \div 2, y \div 2) + ((x + y) % 2)

AddrOf(i) == i \div 2^data_n
DataOf(i) == i % 2^data_n

ValuesFit == \A i \in 1..Len(my_list) : my_list[i] < 2^data_n

\* C2: the load pass followed at once by the unload pass maps every basis
\* state to itself, for every database and register plan; the passes can be
\* built whenever there is an address qubit and the values fit the data
\* register.
C2_LoadUnloadIdentity ==
    /\ (unit = "loadunload" /\ addr_n >= 1 /\ ValuesFit) => pc # "failed"
    /\ (unit = "loadunload" /\ pc = "done") =>
          state = BasisState(b0, total_qubits) /\ hc = 0

C2_Witness ==
    /\ unit = "loadunload" /\ pc = "done" /\ my_list = <<2, 1>>
    /\ addr_n = 1 /\ data_n = 2 /\ b0 = 5
    /\ state = BasisState(b0, total_qubits)

\* C9: the block of one entry (address, value) flips exactly the data bits
\* where value has a 1 when the address register holds address, leaves the
\* data register alone for every other address, never changes the address
\* register, and is the identity for value 0.
C9_EncodeValue ==
    /\ (unit = "encode" /\ addr_n >= 1) => pc # "failed"
    /\ (unit = "encode" /\ pc = "done") =>
          /\ hc = 0
          /\ state = BasisState(
                 IF AddrOf(b0) = e_addr
                 THEN AddrOf(b0) * 2^data_n + BitXor(DataOf(b0), e_val)
                 ELSE b0, total_qubits)
          /\ e_val = 0 => state = BasisState(b0, total_qubits)

C9_Witness ==
    /\ unit = "encode" /\ pc = "done" /\ addr_n = 2 /\ data_n = 2
    /\ e_addr = 1 /\ e_val = 2 /\ b0 = 5
    /\ state = BasisState(7, total_qubits)

\* C10: for data_n >= 1 and a target below 2^data_n the oracle block
\* multiplies by -1 the amplitude of exactly the basis states whose data
\* register equals the target and moves no amplitude between basis states
\* (the two Hadamards of the general case leave the scale 2 = sqrt(2)^2).
C10_OraclePhase ==
    /\ (unit = "oracle" /\ data_n >= 1 /\ target_value < 2^data_n)
          => pc # "failed"
    /\ (unit = "oracle" /\ pc = "done" /\ data_n >= 1
        /\ target_value < 2^data_n) =>
          /\ hc = (IF data_n = 1 THEN 0 ELSE 2)
          /\ \A i \in 0..(Dim(total_qubits) - 1) :
                state[i] =
                   2^(hc \div 2) *
                   (IF i # b0 THEN 0
                    ELSE IF DataOf(i) = target_value THEN 0 - 1 ELSE 1)

C10_Witness ==
    /\ unit = "oracle" /\ pc = "done" /\ data_n = 2 /\ addr_n = 1
    /\ target_value = 2 /\ b0 = 6 /\ state[6] < 0

\* the integer every amplitude of the diffuser's output is a multiple of:
\* sqrt(2)^hc / 2^addr_n, with hc Hadamards applied
DiffuserScale == IF addr_n = 1 THEN 1 ELSE 2

\* an address amplitude of 1 at AddrOf(b0), 0 elsewhere, has mean 1/2^addr_n
Delta(i) == IF i = b0 THEN 2^addr_n ELSE 0

\* C11 as stated: for addr_n >= 1 the diffuser maps each address amplitude
\* a_x to 2*mean(a) - a_x with the data register fixed (the reflection
\* 2|s><s| - I), and leaves the data register untouched.
C11_ReflectionAboutMean ==
    (unit = "diffuser" /\ pc = "done" /\ addr_n >= 1) =>
        \A i \in 0..(Dim(total_qubits) - 1) :
            state[i] = IF DataOf(i) = DataOf(b0)
                       THEN DiffuserScale * (2 - Delta(i)) ELSE 0

\* C11 amended: for addr_n >= 1 the diffuser block is always built and maps
\* each address amplitude a_x to a_x - 2*mean(a) with the data register
\* fixed, which is I - 2|s><s|, the reflection times the global factor -1;
\* it leaves the data register untouched.
C11_NegatedReflection ==
    /\ (unit = "diffuser" /\ addr_n >= 1) => pc # "failed"
    /\ (unit = "diffuser" /\ pc = "done" /\ addr_n >= 1) =>
          /\ hc = 2 * addr_n + (IF addr_n = 1 THEN 0 ELSE 2)
          /\ \A i \in 0..(Dim(total_qubits) - 1) :
                state[i] = IF DataOf(i) = DataOf(b0)
                           THEN DiffuserScale * (Delta(i) - 2) ELSE 0

C11_Witness ==
    /\ unit = "diffuser" /\ pc = "done" /\ addr_n = 2 /\ data_n = 1
    /\ b0 = 3
    /\ state[3] > 0 /\ state[1] < 0 /\ state[5] < 0 /\ state[7] < 0
    /\ state[0] = 0 /\ state[2] = 0

(* ---- order of the composed circuit ---- *)

Rank(tag) ==
    CASE tag = "init" -> 1 [] tag = "load" -> 2 [] tag = "oracle" -> 3
      [] tag = "unload" -> 4 [] tag = "diffuser" -> 5

Simulating == pc = "sim" /\ unit = "circuit"

\* the Hadamard layer and the load pass are applied, nothing after them is
AtOracleStart ==
    /\ Simulating
    /\ \A j \in 1..(k - 1) : Rank(tape[j].blk) <= 2
    /\ k <= Len(tape) => Rank(tape[k].blk) > 2

\* the next gate is the first gate of the diffuser
AtDiffuserStart ==
    /\ Simulating
    /\ k <= Len(tape) /\ tape[k].blk = "diffuser"
    /\ k > 1 => tape[k - 1].blk # "diffuser"

\* C12: the gates run in the order Hadamard layer, load, oracle, unload,
\* diffuser; when the oracle starts every basis state with non-zero
\* amplitude and address a has data register database[a] (0 for a padding
\* address); when the first diffuser gate is applied every basis state with
\* non-zero amplitude has an all-zero data register.
C12_CircuitOrder ==
    /\ (unit = "circuit" /\ (pc \in {"queued", "sim"} \/ Finished)) =>
          /\ \A j \in 1..(Len(tape) - 1) :
                Rank(tape[j].blk) <= Rank(tape[j + 1].blk)
          /\ \A j \in 1..Len(tape) :
                tape[j].blk = "init" <=> j <= addr_n
          /\ \A j \in 1..addr_n :
                tape[j].kind = "Hadamard" /\ tape[j].wires = <<j - 1>>
    /\ AtOracleStart =>
          \A i \in 0..(Dim(total_qubits) - 1) :
              state[i] # 0 => DataOf(i) = Loaded(AddrOf(i))
    /\ AtDiffuserStart =>
          \A i \in 0..(Dim(total_qubits) - 1) :
              state[i] # 0 => DataOf(i) = 0

C12_Witness ==
    /\ AtDiffuserStart /\ my_list = <<1, 2, 1>> /\ target_value = 2
    /\ \E j \in 1..(k - 1) : tape[j].blk = "oracle"
    /\ state[1 * 2^data_n] < 0 /\ state[0] > 0
    /\ \A i \in 0..(Dim(total_qubits) - 1) : state[i] # 0 => DataOf(i) = 0

(* ---- classical KMP ---- *)

GroverIdle ==
    /\ cls = "GroverSearchNumber" /\ my_list = <<>> /\ target_value = 0
    /\ addr_arg = None /\ data_arg = None /\ unit = "kmp"
    /\ e_addr = 0 /\ e_val = 0 /\ b0 = 0 /\ Unbuilt

\* KMP.search(pattern, text) entered; get_lps_array starts with lps = [0] * n
InitKMP ==
    /\ pattern \in SeqsUpTo(Alphabet, MaxPat) \ {<<>>}
    /\ text \in SeqsUpTo(Alphabet, MaxText)
    /\ lps = [i \in 1..Len(pattern) |-> 0]
    /\ length = 0 /\ li = 1
    /\ si = 0 /\ sj = 0 /\ match = <<>>
    /\ pc = "lps"
    /\ GroverIdle

\* one iteration of the while loop of get_lps_array
LpsBody(p, l, len, i) ==
    IF p[i + 1] = p[len + 1]
    THEN [lps |-> [l EXCEPT ![i + 1] = len + 1], length |-> len + 1, i |-> i + 1]
    ELSE IF len # 0
         THEN [lps |-> l, length |-> l[len], i |-> i]
         ELSE [lps |-> [l EXCEPT ![i + 1] = 0], length |-> len, i |-> i + 1]

SearchBodyRestart(p, t, l, i, j, m) ==
    LET hit == p[j + 1] = t[i + 1]
        i1 == IF hit THEN i + 1 ELSE i
        j1 == IF hit THEN j + 1 ELSE j
    IN IF j1 = Len(p)
       THEN [i |-> i1, j |-> 0, match |-> Append(m, i1 - j1)]
       ELSE IF i1 < Len(t) /\ p[j1 + 1] # t[i1 + 1]
            THEN IF j1 # 0 THEN [i |-> i1, j |-> l[j1], match |-> m]
                 ELSE [i |-> i1 + 1, j |-> j1, match |-> m]
            ELSE [i |-> i1, j |-> j1, match |-> m]

\* one iteration of the while loop of search
SearchBody(p, t, l, i, j, m) ==
    LET hit == p[j + 1] = t[i + 1]
        i1 == IF hit THEN i + 1 ELSE i
        j1 == IF hit THEN j + 1 ELSE j
    IN IF j1 = Len(p)
       THEN [i |-> i1, j |-> l[j1], match |-> Append(m, i1 - j1)]
       ELSE IF i1 < Len(t) /\ p[j1 + 1] # t[i1 + 1]
            THEN IF j1 # 0 THEN [i |-> i1, j |-> l[j1], match |-> m]
                 ELSE [i |-> i1 + 1, j |-> j1, match |-> m]
            ELSE [i |-> i1, j |-> j1, match |-> m]

LpsStep ==
    /\ pc = "lps"
    /\ li < Len(pattern)
    /\ LET r == LpsBody(pattern, lps, length, li)
       IN lps' = r.lps /\ length' = r.length /\ li' = r.i
    /\ UNCHANGED <<pc, pattern, text, si, sj, match>>
    /\ UNCHANGED groverVars

LpsReturn ==
    /\ pc = "lps"
    /\ li >= Len(pattern)
    /\ pc' = "search"
    /\ UNCHANGED kmpVars
    /\ UNCHANGED groverVars

SearchStep ==
    /\ pc = "search"
    /\ si < Len(text)
    /\ LET r == SearchBody(pattern, text, lps, si, sj, match)
       IN si' = r.i /\ sj' = r.j /\ match' = r.match
    /\ UNCHANGED <<pc, pattern, text, lps, length, li>>
    /\ UNCHANGED groverVars

SearchReturn ==
    /\ pc = "search"
    /\ si >= Len(text)
    /\ pc' = "done"
    /\ UNCHANGED kmpVars
    /\ UNCHANGED groverVars

NextKMP ==
    \/ LpsStep
    \/ LpsReturn
    \/ SearchStep
    \/ SearchReturn

\* the loops run to completion: a call is never suspended
SpecKMP == InitKMP /\ [][NextKMP]_vars /\ WF_vars(NextKMP)

\* start indices found by trying every position
Occurrences ==
    {i \in 0..(Len(text) - Len(pattern)) :
        SubSeq(text, i + 1, i + Len(pattern)) = pattern}

\* longest proper prefix of pattern[0..j] that is also its suffix
LongestBorder(p, j) ==
    LET borders == {L \in 0..j : SubSeq(p, 1, L) = SubSeq(p, j + 2 - L, j + 1)}
    IN CHOOSE L \in borders : \A M \in borders : M <= L

KmpResult ==
    pc = "done" =>
        /\ \A j \in 0..(Len(pattern) - 1) : lps[j + 1] = LongestBorder(pattern, j)
        /\ \A x, y \in 1..Len(match) : x < y => match[x] < match[y]
        /\ {match[x] : x \in 1..Len(match)} = Occurrences

\* C8: for a non-empty pattern search terminates and returns, ascending and
\* without duplicates, exactly the start indices of the occurrences of the
\* pattern in the text (overlapping ones included), with lps[j] the length
\* of the longest proper prefix of pattern[0..j] that is also its suffix.
C8_KmpSearch == <>(pc = "done") /\ []KmpResult

C8_Witness ==
    /\ pc = "done" /\ pattern = <<"A", "A">> /\ text = <<"A", "A", "A", "A">>
    /\ match = <<0, 1, 2>>

(* ---- the planner and the degenerate sizes ---- *)

AtLeastOne(n) == IF n < 1 THEN 1 ELSE n

Constructed == pc # "new" /\ unit = "circuit"

\* C5: for a single-entry database and any target the address register has
\* exactly one qubit, the run completes and address 0 has probability 1.
C5_SingleEntry ==
    (Constructed /\ Len(my_list) = 1) =>
        /\ addr_n = 1
        /\ pc # "failed"
        /\ Finished => probs[0] = 2^hc

\* C6: without overrides addr_n = max(1, ceil(log2(N))) and
\* data_n = max(1, ceil(log2(max_value + 1))), max_value being 0 for an
\* empty database, so each register has at least one qubit.
C6_PlannedWidths ==
    (Constructed /\ addr_arg = None /\ data_arg = None) =>
        /\ addr_n = (IF Len(my_list) = 0 THEN 1
                     ELSE AtLeastOne(CeilLog2(Len(my_list))))
        /\ data_n = AtLeastOne(CeilLog2(MaxOf(my_list) + 1))
        /\ addr_n >= 1 /\ data_n >= 1

\* C7: planning fails with the capacity error exactly when the supplied
\* address width gives 2^addr_n < N, before any gate or simulation state
\* exists; for every other input planning returns a plan with
\* 2^addr_n >= N.
C7_CapacityOnly ==
    Constructed =>
        /\ err = "capacity" <=> (addr_arg # None /\ 2^addr_arg < Len(my_list))
        /\ err = "capacity" =>
              pc = "failed" /\ tape = <<>> /\ state = <<>> /\ dev = None
        /\ err # "capacity" =>
              /\ err # "domain"
              /\ addr_n # None /\ data_n # None
              /\ 2^addr_n >= Len(my_list)

(* ---- wires of the emitted gates ---- *)

AddrWire(w) == w >= 0 /\ w < addr_n
DataWire(w) == w >= addr_n /\ w < addr_n + data_n

\* the gate stays in the register(s) its block works on
GateInRegisters(g) ==
    LET n == Len(g.wires)
    IN CASE g.blk \in {"init", "diffuser"} ->
              \A w \in 1..n : AddrWire(g.wires[w])
         [] g.blk = "oracle" ->
              \A w \in 1..n : DataWire(g.wires[w])
         [] g.blk \in {"load", "unload"} ->
              IF g.kind = "PauliX" THEN AddrWire(g.wires[1])
              ELSE /\ \A w \in 1..(n - 1) : AddrWire(g.wires[w])
                   /\ DataWire(g.wires[n])

\* C13: whenever planning succeeds, with default or caller-supplied widths,
\* every gate of the load, oracle, unload and diffuser blocks can be queued
\* and acts only on qubits of [0, addr_n + data_n), address gates and controls
\* in [0, addr_n) and data gates in [addr_n, addr_n + data_n), so no run fails
\* on a qubit outside the device.
C13_GatesOnDevice ==
    (Constructed /\ err # "capacity" /\ err # "domain") =>
        /\ err = "none"
        /\ \A j \in 1..Len(tape) : GateInRegisters(tape[j])

====
